---- MODULE Spec2Model ----
(***************************************************************************)
(* Ledger reconciliation of src/inputToOutput.py: build_transaction_list   *)
(* (raw records -> ordered ledger) and calculate_account_balances (ledger  *)
(* -> per-account summary), run one after the other by execute().          *)
(*                                                                         *)
(* Representation                                                          *)
(*  - A Python str is a sequence of one-character strings, so that         *)
(*    str.lower(), `in` (substring) and == are computed, not assumed.      *)
(*  - A Python float holding a 2-decimal amount is a fixed-point integer   *)
(*    counting 1/Unit (Unit = 10000): 1.00 is 10000, 219.50 is 2195000.    *)
(*    Binary floating-point error below round(x, 2) is not modelled.       *)
(*  - A date (ISO-8601 string, compared as a string by sorted) is a day    *)
(*    number; fixed-width ISO strings compare as their day numbers do.     *)
(*  - A value that may be None (a dict.get result, a JSON null) is an      *)
(*    option: None is <<>>, a present value x is <<x>>.                    *)
(*  - A ledger entry carries one ghost field, src = <<collection, index>>, *)
(*    the raw record it was built from. No code reads it.                  *)
(***************************************************************************)
EXTENDS Integers, Sequences, FiniteSets, TLC

VARIABLES account, transaction, transfer, sync_link, category,
          pc, ledger, balances, output_data, summary

vars == <<account, transaction, transfer, sync_link, category,
          pc, ledger, balances, output_data, summary>>

None == <<>>
Some(x) == <<x>>
Val(o) == o[1]

\* ------------------------------------------------------------------ str

UpperChars == <<"A","B","C","D","E","F","G","H","I","J","K","L","M",
                "N","O","P","Q","R","S","T","U","V","W","X","Y","Z">>

LowerChars == <<"a","b","c","d","e","f","g","h","i","j","k","l","m",
                "n","o","p","q","r","s","t","u","v","w","x","y","z">>

\* str.lower() on one character.
LowerChar(c) ==
    IF \E i \in DOMAIN UpperChars : UpperChars[i] = c
    THEN LowerChars[CHOOSE i \in DOMAIN UpperChars : UpperChars[i] = c]
    ELSE c

\* str.lower()
Lower(s) == [i \in DOMAIN s |-> LowerChar(s[i])]

\* sub in s  (Python substring test; the empty string is in every string)
Contains(sub, s) ==
    \E k \in 0..(Len(s) - Len(sub)) :
        \A i \in 1..Len(sub) : s[k + i] = sub[i]

S_giroconto == <<"g","i","r","o","c","o","n","t","o">>
S_RegolazioneSaldo == <<"R","e","g","o","l","a","z","i","o","n","e"," ","s","a","l","d","o">>
S_Intesa == <<"I","n","t","e","s","a">>
S_Contanti == <<"C","o","n","t","a","n","t","i">>
S_ETF == <<"E","T","F">>
S_Empty == <<>>

\* ---------------------------------------------------------------- float

\* 1.00 as a fixed-point integer.
Unit == 100 * 100

\* round(x, 2): to the nearest 1/100, ties to even.
Round2(x) ==
    LET step == Unit \div 100
        q == x \div step
        r == x % step
    IN  IF 2 * r > step \/ (2 * r = step /\ q % 2 = 1)
        THEN (q + 1) * step
        ELSE q * step

\* Mutant of AmountToValue: the amount is divided by 100 twice.
AmountToValue_DividedTwice(v) ==
    LET n == IF v = None THEN 0 ELSE Val(v)
    IN  ((n * Unit) \div 100) \div 100

\* int(v or 0) / 100 : None and 0 are falsy, the quotient is a float.
AmountToValue(v) ==
    LET n == IF v = None THEN 0 ELSE Val(v)
    IN  (n * Unit) \div 100

\* 219.50
ManualAdjustment == (21950 * Unit) \div 100

\* ----------------------------------------------------------------- dict

\* {r[key]: r for r in rows}.get(k), hits being the indices of the rows whose
\* key is k: the LAST such row, or None.
LastOf(rows, hits) ==
    IF hits = {} THEN None
    ELSE Some(rows[CHOOSE i \in hits : \A j \in hits : j <= i])

\* category_map.get(uid)
CategoryMapGet(uid) ==
    LastOf(category, {i \in DOMAIN category : category[i].uid = uid})

\* account_map.get(uid)
AccountMapGet(uid) ==
    LastOf(account, {i \in DOMAIN account : account[i].uid = uid})

\* Mutant of SyncMapGet: the first link of the role and entity is kept.
SyncMapGet_FirstWins(role, tid) ==
    LET hits == {i \in DOMAIN sync_link :
                    sync_link[i].otherType = role /\ sync_link[i].entityUid = tid}
    IN  IF hits = {} THEN None
        ELSE Some(sync_link[CHOOSE i \in hits : \A j \in hits : i <= j])

\* sync_maps[role].get(tid)
SyncMapGet(role, tid) ==
    LastOf(sync_link, {i \in DOMAIN sync_link :
        sync_link[i].otherType = role /\ sync_link[i].entityUid = tid})

\* ------------------------------------------------- build_transaction_list

\* Transaction(type_, date, value, account, category, from_account, to_account)
\* plus the ghost field src.
NewTransaction(type_, date, value, acct, cat, from_account, to_account, src) ==
    [type |-> type_, date |-> date, value |-> value, account |-> acct,
     category |-> cat, from_account |-> from_account,
     to_account |-> to_account, src |-> src]

\* Mutant of IsRemoved: the removed flag is not looked at.
IsRemoved_Ignored(r) == FALSE

\* if t['isRemoved']: continue        (both loops)
IsRemoved(r) == r.isRemoved

\* category_data = category_map.get(sync_maps["Category"].get(tid, {}).get('otherUid'), {})
\* None stands for the empty dict {}.
CategoryData(tid) ==
    LET link == SyncMapGet("Category", tid)
    IN  IF link = None THEN None ELSE CategoryMapGet(Val(link).otherUid)

\* Mutant of IsGiroconto: the title is not lower-cased before the test.
IsGiroconto_CaseSensitive(category_data) ==
    LET title == IF category_data = None THEN S_Empty ELSE Val(category_data).title
    IN  Contains(S_giroconto, title)

\* "giroconto" in category_data.get('title', "").lower()
IsGiroconto(category_data) ==
    LET title == IF category_data = None THEN S_Empty ELSE Val(category_data).title
    IN  Contains(S_giroconto, Lower(title))

\* if not acc or acc['ignoreInBalance']: continue
AccountSkipped(acc) == acc = None \/ Val(acc).ignoreInBalance

\* Mutant of CategoryTitle: the default of the giroconto test, "", is used.
CategoryTitle_EmptyDefault(category_data) ==
    IF category_data = None THEN S_Empty ELSE Val(category_data).title

\* category_data.get('title', "Regolazione saldo")
CategoryTitle(category_data) ==
    IF category_data = None THEN S_RegolazioneSaldo ELSE Val(category_data).title

\* "Spesa" if t['type'] == 'Expense' else "Entrata"
TxType(t) == IF t.type = "Expense" THEN "Spesa" ELSE "Entrata"

\* One pass of the loop over `transaction`: None (continue) or the entry appended.
TransactionEntry(i) ==
    LET t == transaction[i]
        tid == t.uid
        category_data == CategoryData(tid)
        acc_sync == SyncMapGet("Account", tid)
        acc == IF acc_sync = None THEN None ELSE AccountMapGet(Val(acc_sync).otherUid)
    IN  IF IsRemoved(t) THEN None
        ELSE IF IsGiroconto(category_data) THEN None
        ELSE IF acc_sync = None THEN None
        ELSE IF AccountSkipped(acc) THEN None
        ELSE Some(NewTransaction(TxType(t), t.date,
                                 AmountToValue(t.amountInDefaultCurrency),
                                 Val(acc).title, CategoryTitle(category_data),
                                 S_Empty, S_Empty, <<"transaction", i>>))

\* if not from_acc_sync or not to_acc_sync: continue
TransferUnlinked(tid) ==
    SyncMapGet("FromAccount", tid) = None \/ SyncMapGet("ToAccount", tid) = None

\* account_map[from_acc_sync['otherUid']] or account_map[to_acc_sync['otherUid']]
\* raises KeyError: a subscript, not a .get().
TransferRaises(i) ==
    LET tr == transfer[i]
    IN  /\ ~IsRemoved(tr)
        /\ ~TransferUnlinked(tr.uid)
        /\ \/ AccountMapGet(Val(SyncMapGet("FromAccount", tr.uid)).otherUid) = None
           \/ AccountMapGet(Val(SyncMapGet("ToAccount", tr.uid)).otherUid) = None

\* One pass of the loop over `transfer` that does not raise: None or the entry.
TransferEntry(i) ==
    LET tr == transfer[i]
        tid == tr.uid
    IN  IF IsRemoved(tr) THEN None
        ELSE IF TransferUnlinked(tid) THEN None
        ELSE LET from_acc == Val(AccountMapGet(Val(SyncMapGet("FromAccount", tid)).otherUid)).title
                 to_acc == Val(AccountMapGet(Val(SyncMapGet("ToAccount", tid)).otherUid)).title
             IN  Some(NewTransaction("Giroconto", tr.date, AmountToValue(tr.fromAmount),
                                     S_Empty, S_Empty, from_acc, to_acc,
                                     <<"transfer", i>>))

RECURSIVE Concat(_)
\* The options of a sequence, in order, without the Nones.
Concat(opts) ==
    IF opts = <<>> THEN <<>> ELSE Head(opts) \o Concat(Tail(opts))

\* output_transactions when the second loop ends.
OutputTransactions ==
    Concat([i \in DOMAIN transaction |-> TransactionEntry(i)])
    \o Concat([i \in DOMAIN transfer |-> TransferEntry(i)])

\* Mutant of InsertByDate: e goes before the elements of its own date.
InsertByDate_BeforeTies(sorted, e) ==
    LET before == SelectSeq(sorted, LAMBDA x : x.date < e.date)
        after == SelectSeq(sorted, LAMBDA x : x.date >= e.date)
    IN  before \o <<e>> \o after

\* The place of e in a list sorted by date: after every element whose date is
\* not later (sorted is stable).
InsertByDate(sorted, e) ==
    LET before == SelectSeq(sorted, LAMBDA x : x.date <= e.date)
        after == SelectSeq(sorted, LAMBDA x : x.date > e.date)
    IN  before \o <<e>> \o after

RECURSIVE SortedByDate(_)
\* sorted(output_transactions, key=lambda t: t.date)
SortedByDate(entries) ==
    IF entries = <<>> THEN <<>>
    ELSE InsertByDate(SortedByDate(SubSeq(entries, 1, Len(entries) - 1)),
                      entries[Len(entries)])

\* Some transfer makes the second loop raise KeyError.
BuildRaises == \E i \in DOMAIN transfer : TransferRaises(i)

\* --------------------------------------------- calculate_account_balances

\* not a.get('ignoreInBalance') and not a.get('isRemoved')
Retained(a) == ~a.ignoreInBalance /\ ~a.isRemoved

\* account_map_by_title.get(title)
AccountByTitleGet(title) ==
    LastOf(account, {i \in DOMAIN account :
        Retained(account[i]) /\ account[i].title = title})

\* account_map_by_uid[uid]
AccountByUid(uid) ==
    Val(LastOf(account, {i \in DOMAIN account :
        Retained(account[i]) /\ account[i].uid = uid}))

\* The keys of account_map_by_uid, in dict order: a key keeps the place of its
\* first insertion.
RetainedUids ==
    LET firsts == SelectSeq([i \in DOMAIN account |-> i],
                            LAMBDA i : /\ Retained(account[i])
                                       /\ \A j \in 1..(i - 1) :
                                            ~(Retained(account[j]) /\ account[j].uid = account[i].uid))
    IN  [k \in DOMAIN firsts |-> account[firsts[k]].uid]

\* balances[uid] = int(acc_data.get('initialBalance') or 0) / 100
InitialBalances ==
    [u \in {RetainedUids[k] : k \in DOMAIN RetainedUids} |->
        AmountToValue(AccountByUid(u).initialBalance)]

\* Mutant of Credit: the title is looked up among all accounts, retained or
\* not, so an entry on a non-retained account is dropped only by the
\* `in balances` test.
Credit_AnyAccountByTitle(bal, title, delta) ==
    LET acc_data == LastOf(account, {i \in DOMAIN account : account[i].title = title})
    IN  IF acc_data # None /\ Val(acc_data).uid \in DOMAIN bal
        THEN [bal EXCEPT ![Val(acc_data).uid] = @ + delta]
        ELSE bal

\* balances[acc_data['uid']] += delta, when the title is that of a retained
\* account whose uid is a key of balances.
Credit(bal, title, delta) ==
    LET acc_data == AccountByTitleGet(title)
    IN  IF acc_data # None /\ Val(acc_data).uid \in DOMAIN bal
        THEN [bal EXCEPT ![Val(acc_data).uid] = @ + delta]
        ELSE bal

\* Mutant of ApplyEntry: a transfer only credits its destination.
ApplyEntry_TransferNotDebited(bal, t) ==
    CASE t.type = "Entrata" -> Credit(bal, t.account, t.value)
      [] t.type = "Spesa" -> Credit(bal, t.account, 0 - t.value)
      [] t.type = "Giroconto" -> Credit(bal, t.to_account, t.value)
      [] OTHER -> bal

\* One pass of the loop over `transactions`.
ApplyEntry(bal, t) ==
    CASE t.type = "Entrata" -> Credit(bal, t.account, t.value)
      [] t.type = "Spesa" -> Credit(bal, t.account, 0 - t.value)
      [] t.type = "Giroconto" ->
            Credit(Credit(bal, t.from_account, 0 - t.value), t.to_account, t.value)
      [] OTHER -> bal

RECURSIVE Replay(_, _)
\* balances after the loop over `transactions`.
Replay(bal, entries) ==
    IF entries = <<>> THEN bal
    ELSE Replay(ApplyEntry(bal, Head(entries)), Tail(entries))

\* Mutant of ManualFix: "Contanti" is looked for in the title, as "Intesa" is.
ManualFix_ContantiSubstring(acc) ==
    LET a1 == IF Contains(S_Intesa, acc.title)
              THEN [acc EXCEPT !.balance = Round2(@ + ManualAdjustment)]
              ELSE acc
    IN  IF Contains(S_Contanti, a1.title)
        THEN [a1 EXCEPT !.balance = Round2(@ - ManualAdjustment)]
        ELSE a1

\* The manual fix of one output row: +219.50 when "Intesa" is in the title,
\* -219.50 when the title is "Contanti", rounded after each.
ManualFix(acc) ==
    LET a1 == IF Contains(S_Intesa, acc.title)
              THEN [acc EXCEPT !.balance = Round2(@ + ManualAdjustment)]
              ELSE acc
    IN  IF a1.title = S_Contanti
        THEN [a1 EXCEPT !.balance = Round2(@ - ManualAdjustment)]
        ELSE a1

\* output_data after the manual fix.
OutputData(bal) ==
    [k \in DOMAIN RetainedUids |->
        ManualFix([title |-> AccountByUid(RetainedUids[k]).title,
                   balance |-> Round2(bal[RetainedUids[k]])])]

RECURSIVE SumBalance(_)
SumBalance(rows) ==
    IF rows = <<>> THEN 0 ELSE Head(rows).balance + SumBalance(Tail(rows))

\* Mutant of HasEtfAccounts: only the retained accounts are looked at.
HasEtfAccounts_RetainedOnly ==
    \E i \in DOMAIN account : Retained(account[i]) /\ Contains(S_ETF, account[i].title)

\* has_etf_accounts = any("ETF" in a['title'] for a in account)
HasEtfAccounts == \E i \in DOMAIN account : Contains(S_ETF, account[i].title)

\* accounts_without_etf, with the "ETF" row appended when has_etf_accounts.
EtfGrouped(rows) ==
    LET etf_total == SumBalance(SelectSeq(rows, LAMBDA r : Contains(S_ETF, r.title)))
        accounts_without_etf == SelectSeq(rows, LAMBDA r : ~Contains(S_ETF, r.title))
    IN  IF HasEtfAccounts
        THEN Append(accounts_without_etf, [title |-> S_ETF, balance |-> Round2(etf_total)])
        ELSE accounts_without_etf

\* The place of r in a list sorted by balance, descending: after every row
\* whose balance is not smaller (sorted with reverse=True is stable).
InsertByBalanceDesc(sorted, r) ==
    LET before == SelectSeq(sorted, LAMBDA x : x.balance >= r.balance)
        after == SelectSeq(sorted, LAMBDA x : x.balance < r.balance)
    IN  before \o <<r>> \o after

RECURSIVE SortedByBalanceDesc(_)
\* sorted(accounts_without_etf, key=lambda x: x['balance'], reverse=True)
SortedByBalanceDesc(rows) ==
    IF rows = <<>> THEN <<>>
    ELSE InsertByBalanceDesc(SortedByBalanceDesc(SubSeq(rows, 1, Len(rows) - 1)),
                             rows[Len(rows)])

\* ---------------------------------------------------------------- execute

\* transactions = build_transaction_list(account, transaction, transfer, sync_link, category)
\* A KeyError in the transfer loop ends execute(): nothing is returned.
BuildTransactionList ==
    /\ pc = "loaded"
    /\ IF BuildRaises
       THEN /\ pc' = "raised"
            /\ ledger' = ledger
       ELSE /\ pc' = "built"
            /\ ledger' = SortedByDate(OutputTransactions)
    /\ UNCHANGED <<account, transaction, transfer, sync_link, category,
                   balances, output_data, summary>>

\* account_balances = calculate_account_balances(account, transactions)
\* balances and output_data are the function's locals of those names, as they
\* stand after the replay loop and after the manual fix.
CalculateAccountBalances ==
    /\ pc = "built"
    /\ LET bal == Replay(InitialBalances, ledger)
           rows == OutputData(bal)
       IN  /\ balances' = bal
           /\ output_data' = rows
           /\ summary' = SortedByBalanceDesc(EtfGrouped(rows))
    /\ pc' = "done"
    /\ UNCHANGED <<account, transaction, transfer, sync_link, category, ledger>>

Next == BuildTransactionList \/ CalculateAccountBalances

\* ----------------------------------------------------------------- input
\* The five collections execute() loads. uid is the tables' key: the rows of
\* one collection have distinct uids.

S_Conto == <<"C","o","n","t","o">>
S_Risparmi == <<"R","i","s","p","a","r","m","i">>
S_IntesaSanPaolo == <<"I","n","t","e","s","a"," ","S","a","n"," ","P","a","o","l","o">>
S_EtfA == <<"E","T","F","-","A">>
S_EtfB == <<"E","T","F","-","B">>
S_IntesaEtf == <<"I","n","t","e","s","a"," ","E","T","F">>
S_Stipendio == <<"S","t","i","p","e","n","d","i","o">>
S_GIROCONTO == <<"G","I","R","O","C","O","N","T","O">>
S_GirocontoInterno == <<"G","i","r","o","c","o","n","t","o"," ","i","n","t","e","r","n","o">>

\* At most this many raw records (transactions and transfers together).
MaxRecords == 1

Account(uid, title, initialBalance, ignoreInBalance, isRemoved) ==
    [uid |-> uid, title |-> title, initialBalance |-> initialBalance,
     ignoreInBalance |-> ignoreInBalance, isRemoved |-> isRemoved]

Link(entityUid, otherType, otherUid) ==
    [entityUid |-> entityUid, otherType |-> otherType, otherUid |-> otherUid]

\* The uid of the i-th row of a collection.
Uid(prefix, i) == <<prefix, i>>

\* A uid no account or category has.
Dangling == <<"x", 0>>

\* The links of role `role` of the rows 1..n named by prefix: targets[i] is
\* None (no link) or the uid linked.
LinksOf(prefix, role, targets) ==
    Concat([i \in DOMAIN targets |->
        IF targets[i] = None THEN <<>>
        ELSE <<Link(Uid(prefix, i), role, Val(targets[i]))>>])

\* The state execute() is in once the five collections are loaded.
Loaded(accs, cats, txs, trs, links) ==
    /\ account = accs
    /\ category = cats
    /\ transaction = txs
    /\ transfer = trs
    /\ sync_link = links
    /\ pc = "loaded"
    /\ ledger = <<>>
    /\ balances = <<>>
    /\ output_data = <<>>
    /\ summary = <<>>

Opt(S) == {None} \cup {Some(x) : x \in S}

ResolutionAccounts ==
    {<<Account(Uid("a", 1), title, Some(100000), ign, rem),
       Account(Uid("a", 2), S_Risparmi, None, FALSE, FALSE)>> :
        title \in {S_Empty, S_Conto}, ign \in BOOLEAN, rem \in BOOLEAN}

ResolutionCategories ==
    {<<[uid |-> Uid("c", 1), title |-> title]>> :
        title \in {S_Stipendio, S_GIROCONTO, S_GirocontoInterno, S_Empty}}

\* type and amountInDefaultCurrency of a raw transaction.
ResolutionTxShapes ==
    {<<"Expense", None>>, <<"Expense", Some(250)>>,
     <<"Income", Some(-150)>>, <<"Income", Some(250)>>}

\* Every way one record can resolve: links present, absent or dangling,
\* accounts plain, ignored or removed, categories plain, empty or giroconto,
\* amounts null, negative or positive.
Init ==
    \E accs \in ResolutionAccounts, cats \in ResolutionCategories,
       n \in 0..MaxRecords, m \in 0..MaxRecords :
        /\ n + m <= MaxRecords
        /\ \E shape \in [1..n -> ResolutionTxShapes],
              txrem \in [1..n -> BOOLEAN], trrem \in [1..m -> BOOLEAN],
              amt \in [1..m -> {None, Some(500)}],
              acc \in [1..n -> Opt({Uid("a", 1), Dangling})],
              cat \in [1..n -> Opt({Uid("c", 1), Dangling})],
              from \in [1..m -> Opt({Uid("a", 1), Dangling})],
              to \in [1..m -> Opt({Uid("a", 2), Dangling})] :
             Loaded(accs, cats,
                    [i \in 1..n |-> [uid |-> Uid("t", i), isRemoved |-> txrem[i],
                                     type |-> shape[i][1], date |-> 1,
                                     amountInDefaultCurrency |-> shape[i][2]]],
                    [i \in 1..m |-> [uid |-> Uid("r", i), isRemoved |-> trrem[i],
                                     date |-> 1, fromAmount |-> amt[i]]],
                    LinksOf("t", "Account", acc) \o LinksOf("t", "Category", cat)
                    \o LinksOf("r", "FromAccount", from)
                    \o LinksOf("r", "ToAccount", to))

Spec == Init /\ [][Next]_vars

\* At most this many raw transactions, and as many raw transfers.
MaxOrderRecords == 2

\* Dates are 1..MaxDate.
MaxDate == 2

\* Inputs that all resolve, so that only removal and the dates decide the
\* ledger: every transaction is on account 1, every transfer goes 1 -> 2.
InitOrder ==
    \E n \in 0..MaxOrderRecords, m \in 0..MaxOrderRecords :
        \E txrem \in [1..n -> BOOLEAN], txdate \in [1..n -> 1..MaxDate],
           trrem \in [1..m -> BOOLEAN], trdate \in [1..m -> 1..MaxDate] :
            Loaded(<<Account(Uid("a", 1), S_Conto, Some(100000), FALSE, FALSE),
                     Account(Uid("a", 2), S_Risparmi, None, FALSE, FALSE)>>,
                   <<[uid |-> Uid("c", 1), title |-> S_Stipendio]>>,
                   [i \in 1..n |-> [uid |-> Uid("t", i), isRemoved |-> txrem[i],
                                    type |-> "Expense", date |-> txdate[i],
                                    amountInDefaultCurrency |-> Some(250)]],
                   [i \in 1..m |-> [uid |-> Uid("r", i), isRemoved |-> trrem[i],
                                    date |-> trdate[i], fromAmount |-> Some(500)]],
                   LinksOf("t", "Account", [i \in 1..n |-> Some(Uid("a", 1))])
                   \o LinksOf("t", "Category", [i \in 1..n |-> Some(Uid("c", 1))])
                   \o LinksOf("r", "FromAccount", [i \in 1..m |-> Some(Uid("a", 1))])
                   \o LinksOf("r", "ToAccount", [i \in 1..m |-> Some(Uid("a", 2))]))

SpecOrder == InitOrder /\ [][Next]_vars

\* At most this many accounts in the inputs of the balance replay.
MaxAccounts == 2

\* At most this many raw records (transactions and transfers together) in
\* the inputs of the balance replay.
MaxBalanceRecords == 2

\* At most this many accounts in the inputs of the ETF grouping.
MaxEtfAccounts == 3

\* At most this many raw transactions in the inputs of the ETF grouping.
MaxEtfRecords == 1

\* initialBalance of the i-th account: null for the second one.
InitialBalanceAt(i) == IF i = 2 THEN None ELSE Some(10000 * i + 50)

\* ignoreInBalance and isRemoved of an account.
Plain == <<FALSE, FALSE>>
Ignored == <<TRUE, FALSE>>
Removed == <<FALSE, TRUE>>

\* Title is the join key of the balance replay: it is unique among the
\* accounts that are not removed (a removed account may share one).
TitlesUnique(accs) ==
    \A i, j \in DOMAIN accs :
        (i < j /\ ~accs[i].isRemoved /\ ~accs[j].isRemoved)
        => accs[i].title # accs[j].title

\* The account lists of n accounts with titles in Titles and flags in Flags.
AccountLists(n, Titles, Flags) ==
    {accs \in {[i \in 1..n |-> Account(Uid("a", i), t[i], InitialBalanceAt(i),
                                       f[i][1], f[i][2])] :
                  t \in [1..n -> Titles], f \in [1..n -> Flags]} :
        TitlesUnique(accs)}

\* Live transactions of 250 minor units, the i-th of type kind[i].
TransactionsOn(kind) ==
    [i \in DOMAIN kind |-> [uid |-> Uid("t", i), isRemoved |-> FALSE,
                            type |-> kind[i], date |-> 1,
                            amountInDefaultCurrency |-> Some(250)]]

\* Live transfers of 700 minor units.
TransfersOf(m) ==
    [i \in 1..m |-> [uid |-> Uid("r", i), isRemoved |-> FALSE, date |-> 1,
                     fromAmount |-> Some(700)]]

\* Inputs whose records all resolve: n accounts drawn from accs, up to
\* maxRecords records, each transaction on any account and of either type,
\* each transfer from any account to any account.
LoadedResolved(accs, maxRecords) ==
    \E a \in 0..maxRecords, b \in 0..maxRecords :
        /\ a + b <= maxRecords
        /\ \E kind \in [1..a -> {"Expense", "Income"}],
              on \in [1..a -> DOMAIN accs],
              from \in [1..b -> DOMAIN accs], to \in [1..b -> DOMAIN accs] :
             Loaded(accs, <<[uid |-> Uid("c", 1), title |-> S_Stipendio]>>,
                    TransactionsOn(kind), TransfersOf(b),
                    LinksOf("t", "Account", [i \in 1..a |-> Some(Uid("a", on[i]))])
                    \o LinksOf("r", "FromAccount", [i \in 1..b |-> Some(Uid("a", from[i]))])
                    \o LinksOf("r", "ToAccount", [i \in 1..b |-> Some(Uid("a", to[i]))]))

BalanceTitles == {S_Conto, S_IntesaSanPaolo, S_Contanti, S_EtfA, S_EtfB}

\* No removed account, no ignore-in-balance account, no giroconto category:
\* accounts of any titles, incomes, expenses and transfers between them.
InitConservation ==
    \E n \in 1..MaxAccounts :
        \E accs \in AccountLists(n, BalanceTitles, {Plain}) :
            LoadedResolved(accs, MaxBalanceRecords)

SpecConservation == InitConservation /\ [][Next]_vars

\* Accounts plain, ignored or removed, a removed one possibly sharing its
\* title with another; incomes, expenses and transfers between any of them.
InitReplay ==
    \E n \in 1..MaxAccounts :
        \E accs \in AccountLists(n, {S_Conto, S_Risparmi}, {Plain, Ignored, Removed}) :
            LoadedResolved(accs, MaxBalanceRecords)

SpecReplay == InitReplay /\ [][Next]_vars

\* Accounts with and without "ETF" in the title, retained or not, and
\* incomes on any of them.
InitEtf ==
    \E n \in 1..MaxEtfAccounts :
        \E accs \in AccountLists(n, {S_Conto, S_EtfA, S_IntesaEtf, S_ETF}, {Plain, Ignored, Removed}),
           a \in 0..MaxEtfRecords :
            \E on \in [1..a -> 1..n] :
                Loaded(accs, <<[uid |-> Uid("c", 1), title |-> S_Stipendio]>>,
                       TransactionsOn([i \in 1..a |-> "Income"]), <<>>,
                       LinksOf("t", "Account", [i \in 1..a |-> Some(Uid("a", on[i]))]))

SpecEtf == InitEtf /\ [][Next]_vars

S_ContantiCasa == <<"C","o","n","t","a","n","t","i"," ","c","a","s","a">>

\* At most this many accounts in the inputs of the manual fix.
MaxFixAccounts == 2

\* At most this many raw transactions in the inputs of the manual fix.
MaxFixRecords == 1

\* initialBalance of the i-th account in the inputs of the manual fix:
\* 1000.00, 500.00, then null.
FixInitialBalanceAt(i) ==
    IF i = 1 THEN Some(100000) ELSE IF i = 2 THEN Some(50000) ELSE None

\* Accounts titled with and without "Intesa" and "Contanti", retained or
\* not, and incomes on any of them.
InitManualFix ==
    \E n \in 1..MaxFixAccounts :
        \E t \in [1..n -> {S_Conto, S_IntesaSanPaolo, S_Contanti, S_ContantiCasa}],
           f \in [1..n -> {Plain, Ignored, Removed}],
           a \in 0..MaxFixRecords :
            \E on \in [1..a -> 1..n] :
                LET accs == [i \in 1..n |-> Account(Uid("a", i), t[i], FixInitialBalanceAt(i),
                                                    f[i][1], f[i][2])]
                IN  /\ TitlesUnique(accs)
                    /\ Loaded(accs, <<[uid |-> Uid("c", 1), title |-> S_Stipendio]>>,
                              TransactionsOn([i \in 1..a |-> "Income"]), <<>>,
                              LinksOf("t", "Account", [i \in 1..a |-> Some(Uid("a", on[i]))]))

SpecManualFix == InitManualFix /\ [][Next]_vars

S_Affitto == <<"A","f","f","i","t","t","o">>

\* At most this many links of one role for one transaction or transfer.
MaxLinksPerRole == 2

\* The lists of at most MaxLinksPerRole uids of prefix p, numbered 1 or 2.
TargetLists(p) ==
    UNION {[1..k -> {Uid(p, 1), Uid(p, 2)}] : k \in 0..MaxLinksPerRole}

\* The links of role `role` of the rows named by prefix: row i is linked, in
\* this order, to the uids of lists[i].
AllLinksOf(prefix, role, lists) ==
    Concat([i \in DOMAIN lists |->
        [k \in DOMAIN lists[i] |-> Link(Uid(prefix, i), role, lists[i][k])]])

\* Two plain accounts, two plain categories, and records with none, one or
\* several links of each role, to the same or to different targets.
InitLinks ==
    \E n \in 0..MaxRecords, m \in 0..MaxRecords :
        /\ n + m <= MaxRecords
        /\ \E acc \in [1..n -> TargetLists("a")], cat \in [1..n -> TargetLists("c")],
              from \in [1..m -> TargetLists("a")], to \in [1..m -> TargetLists("a")] :
             Loaded(<<Account(Uid("a", 1), S_Conto, Some(100000), FALSE, FALSE),
                      Account(Uid("a", 2), S_Risparmi, None, FALSE, FALSE)>>,
                    <<[uid |-> Uid("c", 1), title |-> S_Stipendio],
                      [uid |-> Uid("c", 2), title |-> S_Affitto]>>,
                    TransactionsOn([i \in 1..n |-> "Income"]), TransfersOf(m),
                    AllLinksOf("t", "Account", acc) \o AllLinksOf("t", "Category", cat)
                    \o AllLinksOf("r", "FromAccount", from)
                    \o AllLinksOf("r", "ToAccount", to))

SpecLinks == InitLinks /\ [][Next]_vars

\* =============================================================== claims

\* build_transaction_list has returned its list.
Returned == pc \in {"built", "done"}

\* The ledger entries built from row i of collection coll.
EntriesFrom(coll, i) == {k \in DOMAIN ledger : ledger[k].src = <<coll, i>>}

\* The uids linked to entity tid in role `role`, by any link of sync_link.
LinkedUids(role, tid) ==
    {sync_link[l].otherUid : l \in {l \in DOMAIN sync_link :
        sync_link[l].otherType = role /\ sync_link[l].entityUid = tid}}

AccountsWithUid(uid) == {account[a] : a \in {a \in DOMAIN account : account[a].uid = uid}}

CategoriesWithUid(uid) == {category[c] : c \in {c \in DOMAIN category : category[c].uid = uid}}

\* sub occurs in s when letter case is ignored.
ContainsAnyCase(sub, s) ==
    \E k \in 0..(Len(s) - Len(sub)) :
        \A i \in 1..Len(sub) : LowerChar(s[k + i]) = LowerChar(sub[i])

\* C1: no raw transaction and no raw transfer whose isRemoved flag is set
\* contributes an entry to the returned ledger.
C1_RemovedNeverInLedger ==
    Returned =>
        /\ \A i \in DOMAIN transaction :
              transaction[i].isRemoved => EntriesFrom("transaction", i) = {}
        /\ \A i \in DOMAIN transfer :
              transfer[i].isRemoved => EntriesFrom("transfer", i) = {}

\* A removed transaction and a removed transfer, both fully linked, next to a
\* record that did reach the ledger.
C1_Witness ==
    /\ pc = "built"
    /\ \E i \in DOMAIN transaction : transaction[i].isRemoved
    /\ \E i \in DOMAIN transfer : transfer[i].isRemoved
    /\ ledger # <<>>

\* C2: a transaction whose Category link resolves to a category whose title
\* contains "giroconto" in any letter case has no entry in the returned
\* ledger, whatever its account, kind, amount or removed flag.
C2_GirocontoNeverInLedger ==
    Returned =>
        \A i \in DOMAIN transaction :
            (\E u \in LinkedUids("Category", transaction[i].uid) :
                \E c \in CategoriesWithUid(u) : ContainsAnyCase(S_giroconto, c.title))
            => EntriesFrom("transaction", i) = {}

\* A live transaction on a plain account whose category is "GIROCONTO": only
\* the category keeps it out of the ledger.
C2_Witness ==
    /\ pc = "built"
    /\ \E i \in DOMAIN transaction :
          /\ ~transaction[i].isRemoved
          /\ \E u \in LinkedUids("Account", transaction[i].uid) :
                \E a \in AccountsWithUid(u) : ~a.ignoreInBalance /\ ~a.isRemoved
          /\ \E u \in LinkedUids("Category", transaction[i].uid) :
                \E c \in CategoriesWithUid(u) : c.title = S_GIROCONTO
          /\ EntriesFrom("transaction", i) = {}

\* An endpoint of transfer i cannot be resolved to an account: the link is
\* missing, or the linked uid is not in the account collection.
EndpointUnresolved(i) ==
    \E role \in {"FromAccount", "ToAccount"} :
        \/ LinkedUids(role, transfer[i].uid) = {}
        \/ \E u \in LinkedUids(role, transfer[i].uid) : AccountsWithUid(u) = {}

\* C3: a non-removed transfer with an endpoint that cannot be resolved
\* produces no ledger entry, and build_transaction_list completes without
\* raising.
C3_UnresolvedTransferDropped ==
    pc # "loaded" =>
        \A i \in DOMAIN transfer :
            (~transfer[i].isRemoved /\ EndpointUnresolved(i))
            => (pc # "raised" /\ EntriesFrom("transfer", i) = {})

\* C4: a transaction whose Account link resolves to a uid that is not in the
\* account collection, or to a removed account, or to an ignore-in-balance
\* account, has no entry in the returned ledger.
C4_UnusableAccountSkipped ==
    Returned =>
        \A i \in DOMAIN transaction :
            (\E u \in LinkedUids("Account", transaction[i].uid) :
                \/ AccountsWithUid(u) = {}
                \/ \E a \in AccountsWithUid(u) : a.isRemoved \/ a.ignoreInBalance)
            => EntriesFrom("transaction", i) = {}

\* The raw amount of the record a ledger entry was built from.
RawAmount(e) ==
    IF e.src[1] = "transaction"
    THEN transaction[e.src[2]].amountInDefaultCurrency
    ELSE transfer[e.src[2]].fromAmount

IsExpenseOrIncome(e) == e.type \in {"Spesa", "Entrata"}

\* The category title the claim gives entry e of transaction i: the linked
\* category's title, the sentinel when there is no Category link or the
\* linked uid is not in the category collection.
ClaimedCategoryTitles(i) ==
    LET linked == LinkedUids("Category", transaction[i].uid)
    IN  IF linked = {} \/ \A u \in linked : CategoriesWithUid(u) = {}
        THEN {S_RegolazioneSaldo}
        ELSE {c.title : c \in UNION {CategoriesWithUid(u) : u \in linked}}

\* C5 as stated: every Spesa/Entrata entry of the returned ledger has a
\* non-empty account title and a non-empty category title, the category being
\* the resolved title or the sentinel "Regolazione saldo".
C5_TitlesNonEmpty ==
    Returned =>
        \A k \in DOMAIN ledger :
            IsExpenseOrIncome(ledger[k]) =>
                /\ ledger[k].account # S_Empty
                /\ ledger[k].category # S_Empty
                /\ ledger[k].category \in ClaimedCategoryTitles(ledger[k].src[2])

\* C5 amended: every Spesa/Entrata entry carries the title of the account its
\* transaction is linked to and, as category, the linked category's title or
\* the sentinel "Regolazione saldo" when there is no Category link or the
\* linked uid is not in the category collection; the two are non-empty
\* whenever those input titles are (an empty input title is passed through).
C5_TitlesResolved ==
    Returned =>
        \A k \in DOMAIN ledger :
            IsExpenseOrIncome(ledger[k]) =>
                LET i == ledger[k].src[2]
                    accts == UNION {AccountsWithUid(u) :
                                      u \in LinkedUids("Account", transaction[i].uid)}
                IN  /\ ledger[k].src[1] = "transaction"
                    /\ ledger[k].account \in {a.title : a \in accts}
                    /\ ledger[k].category \in ClaimedCategoryTitles(i)
                    /\ ~ContainsAnyCase(S_giroconto, ledger[k].category)
                    /\ (\A a \in accts : a.title # S_Empty) => ledger[k].account # S_Empty
                    /\ (\A c \in DOMAIN category : category[c].title # S_Empty)
                          => ledger[k].category # S_Empty

\* An entry that fell back to the sentinel because its Category link dangles,
\* on an account with a title.
C5_Witness ==
    /\ pc = "built"
    /\ \E k \in DOMAIN ledger :
          /\ IsExpenseOrIncome(ledger[k])
          /\ ledger[k].category = S_RegolazioneSaldo
          /\ ledger[k].account = S_Conto
          /\ LinkedUids("Category", transaction[ledger[k].src[2]].uid) = {Dangling}

\* C6 as stated: every entry of the returned ledger has value >= 0, the value
\* being the raw amount / 100 (null as 0), for every integer or null amount.
C6_ValueNonNegative ==
    Returned =>
        \A k \in DOMAIN ledger :
            /\ ledger[k].value >= 0
            /\ 100 * ledger[k].value =
                 Unit * (IF RawAmount(ledger[k]) = None THEN 0 ELSE Val(RawAmount(ledger[k])))

\* C6 amended: every entry's value is the raw amount / 100, divided once
\* (null as 0); it is >= 0 exactly when the raw amount is null or >= 0, and a
\* negative raw amount gives a negative value.
C6_ValueIsAmountOver100 ==
    Returned =>
        \A k \in DOMAIN ledger :
            LET raw == IF RawAmount(ledger[k]) = None THEN 0 ELSE Val(RawAmount(ledger[k]))
            IN  /\ 100 * ledger[k].value = Unit * raw
                /\ ledger[k].value >= 0 <=> raw >= 0

\* An entry of 250 minor units, worth 2.50.
C6_Witness ==
    /\ pc = "built"
    /\ \E k \in DOMAIN ledger :
          /\ RawAmount(ledger[k]) = Some(250)
          /\ 2 * ledger[k].value = 5 * Unit

\* C7: the returned ledger is in ascending date order; among entries of one
\* date the transaction-derived ones come before the transfer-derived ones
\* and entries of one collection keep the order of their raw rows; the sort
\* adds and drops no entry.
C7_SortedStable ==
    Returned =>
        /\ \A j, k \in DOMAIN ledger :
              j < k =>
                /\ ledger[j].date <= ledger[k].date
                /\ ledger[j].date = ledger[k].date =>
                      /\ ~(ledger[j].src[1] = "transfer" /\ ledger[k].src[1] = "transaction")
                      /\ ledger[j].src[1] = ledger[k].src[1] => ledger[j].src[2] < ledger[k].src[2]
        /\ LET appended == OutputTransactions
           IN  /\ Len(ledger) = Len(appended)
               /\ \A n \in DOMAIN appended :
                     Cardinality({k \in DOMAIN ledger : ledger[k] = appended[n]}) = 1

\* A ledger the sort had to reorder, holding two transactions of one date
\* and a transfer of that date too.
C7_Witness ==
    /\ pc = "built"
    /\ ledger # OutputTransactions
    /\ \E i, j, k \in DOMAIN ledger :
          /\ i < j /\ j < k
          /\ ledger[i].date = ledger[k].date
          /\ ledger[i].src[1] = "transaction"
          /\ ledger[j].src[1] = "transaction"
          /\ ledger[k].src[1] = "transfer"

RECURSIVE SumValue(_)
\* The total value of a sequence of ledger entries.
SumValue(entries) ==
    IF entries = <<>> THEN 0 ELSE Head(entries).value + SumValue(Tail(entries))

RECURSIVE SumInitial(_)
\* The total initialBalance (minor units, null as 0) of a sequence of accounts.
SumInitial(accs) ==
    IF accs = <<>> THEN 0
    ELSE (IF Head(accs).initialBalance = None THEN 0 ELSE Val(Head(accs).initialBalance))
         + SumInitial(Tail(accs))

\* The input has no removed account, no ignore-in-balance account and no
\* giroconto category.
ConservationInput ==
    /\ \A a \in DOMAIN account : ~account[a].isRemoved /\ ~account[a].ignoreInBalance
    /\ \A c \in DOMAIN category : ~ContainsAnyCase(S_giroconto, category[c].title)

\* Initial balances plus incomes minus expenses of the ledger, in 1/Unit.
ExpectedTotal ==
    (Unit * SumInitial(account)) \div 100
    + SumValue(SelectSeq(ledger, LAMBDA e : e.type = "Entrata"))
    - SumValue(SelectSeq(ledger, LAMBDA e : e.type = "Spesa"))

\* C8 as stated: with no removed or ignored account and no giroconto
\* category, the balances of the summary add up to the initial balances plus
\* the Income entries minus the Expense entries.
C8_Conservation ==
    (pc = "done" /\ ConservationInput) => SumBalance(summary) = ExpectedTotal

\* C8 amended: they add up to that total plus 219.50 for every account whose
\* title contains "Intesa" and minus 219.50 for the account titled
\* "Contanti"; transfers contribute zero.
C8_ConservationUpToManualFix ==
    (pc = "done" /\ ConservationInput) =>
        SumBalance(summary) =
            ExpectedTotal
            + ManualAdjustment * Cardinality({a \in DOMAIN account :
                                                Contains(S_Intesa, account[a].title)})
            - ManualAdjustment * Cardinality({a \in DOMAIN account :
                                                account[a].title = S_Contanti})

\* An income and a transfer between two different accounts, one of them an
\* "Intesa" account.
C8_Witness ==
    /\ pc = "done"
    /\ ConservationInput
    /\ \E a \in DOMAIN account : Contains(S_Intesa, account[a].title)
    /\ \E j, k \in DOMAIN ledger :
          /\ ledger[j].type = "Entrata"
          /\ ledger[k].type = "Giroconto"
          /\ ledger[k].from_account # ledger[k].to_account

\* The balance the claim gives retained account a after the replay.
ReplayedBalance(a) ==
    (Unit * (IF a.initialBalance = None THEN 0 ELSE Val(a.initialBalance))) \div 100
    + SumValue(SelectSeq(ledger, LAMBDA e : e.type = "Entrata" /\ e.account = a.title))
    - SumValue(SelectSeq(ledger, LAMBDA e : e.type = "Spesa" /\ e.account = a.title))
    - SumValue(SelectSeq(ledger, LAMBDA e : e.type = "Giroconto" /\ e.from_account = a.title))
    + SumValue(SelectSeq(ledger, LAMBDA e : e.type = "Giroconto" /\ e.to_account = a.title))

\* C9: after the replay and before the manual fix, the balances are those of
\* the retained accounts, each its initial balance / 100 plus the incomes,
\* minus the expenses, minus the outgoing and plus the incoming transfers
\* whose title is its own; entries of other titles change nothing.
C9_ReplayedBalances ==
    pc = "done" =>
        /\ DOMAIN balances = {account[a].uid : a \in {a \in DOMAIN account :
                                ~account[a].isRemoved /\ ~account[a].ignoreInBalance}}
        /\ \A a \in DOMAIN account :
              (~account[a].isRemoved /\ ~account[a].ignoreInBalance)
              => balances[account[a].uid] = ReplayedBalance(account[a])

\* A transfer from a retained account to one that is not retained and whose
\* title no retained account has: only the source is debited.
C9_Witness ==
    /\ pc = "done"
    /\ \E k \in DOMAIN ledger, a \in DOMAIN account :
          /\ ledger[k].type = "Giroconto"
          /\ ~account[a].isRemoved /\ ~account[a].ignoreInBalance
          /\ ledger[k].from_account = account[a].title
          /\ \A b \in DOMAIN account :
                account[b].title = ledger[k].to_account
                => (account[b].isRemoved \/ account[b].ignoreInBalance)
          /\ balances[account[a].uid] # AmountToValue(account[a].initialBalance)

\* The balance of retained account a that enters the grouping: the replayed
\* balance with the manual fix applied.
OwnBalance(a) ==
    balances[a.uid]
    + (IF Contains(S_Intesa, a.title) THEN ManualAdjustment ELSE 0)
    - (IF a.title = S_Contanti THEN ManualAdjustment ELSE 0)

RetainedAccounts ==
    {account[a] : a \in {a \in DOMAIN account :
        ~account[a].isRemoved /\ ~account[a].ignoreInBalance}}

RECURSIVE SumOwnBalance(_)
SumOwnBalance(S) ==
    IF S = {} THEN 0
    ELSE LET a == CHOOSE a \in S : TRUE
         IN  OwnBalance(a) + SumOwnBalance(S \ {a})

\* C10: when some account of the input, retained or not, has "ETF" in its
\* title, the summary has exactly one row whose title contains "ETF", titled
\* "ETF", with the sum of the balances of the retained accounts with "ETF" in
\* the title; every retained account without "ETF" in its title has exactly
\* one row, with its own balance, and there is no other row; when no account
\* has "ETF" in its title the summary has no "ETF" row.
C10_EtfAggregation ==
    pc = "done" =>
        LET etfRows == {k \in DOMAIN summary : Contains(S_ETF, summary[k].title)}
            others == {a \in RetainedAccounts : ~Contains(S_ETF, a.title)}
        IN  /\ IF \E a \in DOMAIN account : Contains(S_ETF, account[a].title)
               THEN /\ Cardinality(etfRows) = 1
                    /\ \A k \in etfRows :
                          /\ summary[k].title = S_ETF
                          /\ summary[k].balance =
                               SumOwnBalance({a \in RetainedAccounts : Contains(S_ETF, a.title)})
               ELSE etfRows = {}
            /\ \A a \in others :
                  /\ Cardinality({k \in DOMAIN summary : summary[k].title = a.title}) = 1
                  /\ \A k \in DOMAIN summary :
                        summary[k].title = a.title => summary[k].balance = OwnBalance(a)
            /\ Len(summary) = Cardinality(others) + Cardinality(etfRows)

\* Two retained accounts with "ETF" in the title, one of them with an income
\* and the manual fix, grouped next to a retained account without.
C10_Witness ==
    /\ pc = "done"
    /\ Len(summary) = 2
    /\ Cardinality({a \in RetainedAccounts : Contains(S_ETF, a.title)}) = 2
    /\ \E a \in RetainedAccounts : a.title = S_IntesaEtf
    /\ \E k \in DOMAIN ledger : ledger[k].account = S_IntesaEtf

\* The rows of `rows` titled as account a is.
RowsOf(rows, a) == {k \in DOMAIN rows : rows[k].title = a.title}

\* C11: after the manual fix every retained account has one row: its
\* replayed balance plus exactly 219.50 when its title contains "Intesa",
\* minus exactly 219.50 when its title is exactly "Contanti", and the
\* replayed balance itself otherwise; there is no other row.
C11_ManualCorrection ==
    pc = "done" =>
        /\ Len(output_data) = Cardinality(RetainedAccounts)
        /\ \A a \in RetainedAccounts :
              /\ Cardinality(RowsOf(output_data, a)) = 1
              /\ \A k \in RowsOf(output_data, a) :
                    output_data[k].balance =
                        IF Contains(S_Intesa, a.title)
                        THEN balances[a.uid] + (2195 * Unit) \div 10
                        ELSE IF a.title = S_Contanti
                        THEN balances[a.uid] - (2195 * Unit) \div 10
                        ELSE balances[a.uid]

\* Accounts {"Intesa San Paolo": 1000, "Contanti": 500} with an empty ledger
\* give {"Intesa San Paolo": 1219.50, "Contanti": 280.50}.
C11_Witness ==
    /\ pc = "done"
    /\ ledger = <<>>
    /\ Len(account) = 2
    /\ summary = <<[title |-> S_IntesaSanPaolo, balance |-> (121950 * Unit) \div 100],
                   [title |-> S_Contanti, balance |-> (28050 * Unit) \div 100]>>

\* The places in sync_link of the links of role `role` owned by entity tid.
LinkPlaces(role, tid) ==
    {l \in DOMAIN sync_link :
        sync_link[l].otherType = role /\ sync_link[l].entityUid = tid}

\* The uid the first, and the last, of those links refers to.
FirstLinkedUid(role, tid) ==
    sync_link[CHOOSE l \in LinkPlaces(role, tid) :
                \A o \in LinkPlaces(role, tid) : l <= o].otherUid

LastLinkedUid(role, tid) ==
    sync_link[CHOOSE l \in LinkPlaces(role, tid) :
                \A o \in LinkPlaces(role, tid) : o <= l].otherUid

\* Entry e names, field by field, the accounts and the category that picked
\* links refer to: picked[role] is the uid of the link taken for the role.
EntryFollows(e, picked) ==
    IF e.src[1] = "transaction"
    THEN /\ \E a \in AccountsWithUid(picked["Account"]) : e.account = a.title
         /\ LinkPlaces("Category", transaction[e.src[2]].uid) # {}
               => \E c \in CategoriesWithUid(picked["Category"]) : e.category = c.title
    ELSE /\ \E a \in AccountsWithUid(picked["FromAccount"]) : e.from_account = a.title
         /\ \E a \in AccountsWithUid(picked["ToAccount"]) : e.to_account = a.title

\* The uid of the record entry e was built from.
OwnerUid(e) ==
    IF e.src[1] = "transaction" THEN transaction[e.src[2]].uid ELSE transfer[e.src[2]].uid

Roles == {"Account", "Category", "FromAccount", "ToAccount"}

\* C12 as stated: when sync_link holds several links of one owner and role,
\* the first of them resolves the entry's account or category.
C12_FirstLinkWins ==
    Returned =>
        \A k \in DOMAIN ledger :
            EntryFollows(ledger[k],
                [role \in Roles |->
                    IF LinkPlaces(role, OwnerUid(ledger[k])) = {} THEN Dangling
                    ELSE FirstLinkedUid(role, OwnerUid(ledger[k]))])

\* C12 amended: the last of them does.
C12_LastLinkWins ==
    Returned =>
        \A k \in DOMAIN ledger :
            EntryFollows(ledger[k],
                [role \in Roles |->
                    IF LinkPlaces(role, OwnerUid(ledger[k])) = {} THEN Dangling
                    ELSE LastLinkedUid(role, OwnerUid(ledger[k]))])

\* A transaction with two Account links and two Category links, the first
\* and the last to different targets, that reached the ledger.
C12_Witness ==
    /\ pc = "built"
    /\ \E k \in DOMAIN ledger :
          /\ ledger[k].src[1] = "transaction"
          /\ \A role \in {"Account", "Category"} :
                /\ Cardinality(LinkPlaces(role, OwnerUid(ledger[k]))) = 2
                /\ FirstLinkedUid(role, OwnerUid(ledger[k]))
                     # LastLinkedUid(role, OwnerUid(ledger[k]))

\* The account with uid u is a removed one.
IsRemovedAccount(u) == \E a \in AccountsWithUid(u) : a.isRemoved

\* The raw records all of whose account links lead to removed accounts, as
\* <<collection, index>>.
RemovedOnlyRecords ==
    {<<"transaction", i>> : i \in {i \in DOMAIN transaction :
        /\ LinkedUids("Account", transaction[i].uid) # {}
        /\ \A u \in LinkedUids("Account", transaction[i].uid) : IsRemovedAccount(u)}}
    \cup
    {<<"transfer", i>> : i \in {i \in DOMAIN transfer :
        /\ LinkedUids("FromAccount", transfer[i].uid) # {}
        /\ LinkedUids("ToAccount", transfer[i].uid) # {}
        /\ \A u \in LinkedUids("FromAccount", transfer[i].uid)
                      \cup LinkedUids("ToAccount", transfer[i].uid) : IsRemovedAccount(u)}}

\* The ledger of the run without raw record r: each entry is built from its
\* own record and the sort by date is stable, so it is the ledger less the
\* entries of r.
LedgerWithout(r) == SelectSeq(ledger, LAMBDA e : e.src # r)

\* C13: with titles and uids unique among the accounts that are not removed,
\* a transaction or transfer linked only to removed accounts changes no
\* retained account's balance: the rows computed with and without it are the
\* same, also when a removed account has the title of a retained one.
C13_RemovedOnlyRecordChangesNothing ==
    pc = "done" =>
        \A r \in RemovedOnlyRecords :
            OutputData(Replay(InitialBalances, LedgerWithout(r))) = output_data

====
